---- MODULE Spec2Model ----
(***************************************************************************)
(* AdVenture backend: the match-generation workflow.                       *)
(*                                                                         *)
(*   src/gemini.js     GeminiService.findMatches, calculateFallbackScore   *)
(*   src/server.js     the request handlers (find-matches, accept, reject, *)
(*                     video upload, campaign creation, chat)              *)
(*   src/models.js     the schemas of Video, Campaign and Match            *)
(*   src/middleware.js requireRole and the multer upload configuration     *)
(*                                                                         *)
(* Five specifications share the definitions:                              *)
(*   SpecGen   GeminiService.findMatches as a function of the video, the   *)
(*             campaign and the outcome of the external generation call;   *)
(*   Spec      the request handlers, one request at a time;                *)
(*   SpecConc  the request handlers with requests interleaved at their     *)
(*             awaits;                                                     *)
(*   SpecUpload  the upload and campaign creation routes with their files; *)
(*   SpecChat  the chat routes (create, send message, delete) with         *)
(*             requests interleaved at their awaits.                       *)
(***************************************************************************)
EXTENDS Integers, Sequences, FiniteSets, TLC

VARIABLES
    videos,      \* the Video collection, in insertion order; the id is the index
    campaigns,   \* the Campaign collection, in insertion order; the id is the index
    matchStore,  \* the Match collection, in insertion order; the id is the index
    req,         \* per request slot: the find-matches request in flight
    lastList,    \* history: per video, what the last successful video request returned
    gVideo,      \* SpecGen: the video handed to findMatches
    gCampaign,   \* SpecGen: the campaign handed to findMatches
    gOutcome,    \* SpecGen: the outcome of ai.models.generateContent
    gResult,     \* SpecGen: what findMatches returned
    chats,       \* the Chat collection, in insertion order; the id is the index
    messages,    \* the Message collection, in insertion order
    chatReq      \* per request slot: the chat request in flight

vars == <<videos, campaigns, matchStore, req, lastList,
          gVideo, gCampaign, gOutcome, gResult,
          chats, messages, chatReq>>

storeVars == <<videos, campaigns, matchStore, req, lastList>>
genVars == <<gVideo, gCampaign, gOutcome, gResult>>
chatVars == <<chats, messages, chatReq>>

(***************************************************************************)
(* JavaScript values.  A value is a record of one shape, so that any two   *)
(* values can be compared.                                                 *)
(***************************************************************************)
Num(n) == [t |-> "number", n |-> n, s |-> "", o |-> <<>>]
Str(s) == [t |-> "string", n |-> 0, s |-> s, o |-> <<>>]
Obj(o) == [t |-> "object", n |-> 0, s |-> "", o |-> o]
Undefined == [t |-> "undefined", n |-> 0, s |-> "", o |-> <<>>]
NaN == [t |-> "NaN", n |-> 0, s |-> "", o |-> <<>>]
\* a function object (truthy, not a number), e.g. Object or Object.keys
Fn == [t |-> "function", n |-> 0, s |-> "", o |-> <<>>]

\* obj[key] of a plain parsed object: undefined when the key is absent
Get(obj, key) == IF key \in DOMAIN obj THEN obj[key] ELSE Undefined

(***************************************************************************)
(* Strings that the code inspects (genre, tone, category) are sequences of *)
(* one-character strings.                                                  *)
(***************************************************************************)
UpperToLower ==
    ("A" :> "a") @@ ("B" :> "b") @@ ("C" :> "c") @@ ("D" :> "d") @@
    ("E" :> "e") @@ ("F" :> "f") @@ ("G" :> "g") @@ ("H" :> "h") @@
    ("I" :> "i") @@ ("J" :> "j") @@ ("K" :> "k") @@ ("L" :> "l") @@
    ("M" :> "m") @@ ("N" :> "n") @@ ("O" :> "o") @@ ("P" :> "p") @@
    ("Q" :> "q") @@ ("R" :> "r") @@ ("S" :> "s") @@ ("T" :> "t") @@
    ("U" :> "u") @@ ("V" :> "v") @@ ("W" :> "w") @@ ("X" :> "x") @@
    ("Y" :> "y") @@ ("Z" :> "z")

toLowerCase(str) ==
    [i \in 1..Len(str) |->
        IF str[i] \in DOMAIN UpperToLower THEN UpperToLower[str[i]] ELSE str[i]]

includes(str, sub) ==
    \E i \in 0..(Len(str) - Len(sub)) : SubSeq(str, i + 1, i + Len(sub)) = sub

s_comedy == <<"c","o","m","e","d","y">>
s_educational == <<"e","d","u","c","a","t","i","o","n","a","l">>
s_lifestyle == <<"l","i","f","e","s","t","y","l","e">>
s_entertainment == <<"e","n","t","e","r","t","a","i","n","m","e","n","t">>
s_food == <<"f","o","o","d">>
s_technology == <<"t","e","c","h","n","o","l","o","g","y">>
s_healthcare == <<"h","e","a","l","t","h","c","a","r","e">>
s_finance == <<"f","i","n","a","n","c","e">>
s_fashion == <<"f","a","s","h","i","o","n">>
s_beauty == <<"b","e","a","u","t","y">>
s_travel == <<"t","r","a","v","e","l">>
s_gaming == <<"g","a","m","i","n","g">>
s_music == <<"m","u","s","i","c">>
s_sports == <<"s","p","o","r","t","s">>
s_professional == <<"p","r","o","f","e","s","s","i","o","n","a","l">>
s_business == <<"b","u","s","i","n","e","s","s">>
s_constructor == <<"c","o","n","s","t","r","u","c","t","o","r">>
s_length == <<"l","e","n","g","t","h">>
s_name == <<"n","a","m","e">>
s_keys == <<"k","e","y","s">>

(***************************************************************************)
(* GeminiService.calculateFallbackScore                                    *)
(***************************************************************************)
genreBonus ==
    (s_comedy :> ((s_entertainment :> 20) @@ (s_food :> 15) @@ (s_lifestyle :> 10))) @@
    (s_educational :> ((s_technology :> 20) @@ (s_healthcare :> 15) @@ (s_finance :> 10))) @@
    (s_lifestyle :> ((s_fashion :> 20) @@ (s_beauty :> 15) @@ (s_travel :> 10))) @@
    (s_entertainment :> ((s_gaming :> 20) @@ (s_music :> 15) @@ (s_sports :> 10)))

\* genreBonus and its sub-tables are object literals, so a lookup also finds
\* what they inherit from Object.prototype: obj["constructor"] is the function
\* Object, whose own properties include length (1), name ("Object"), keys and,
\* inherited, constructor.
ObjectProps ==
    (s_length :> Num(1)) @@ (s_name :> Str("Object")) @@ (s_keys :> Fn) @@
    (s_constructor :> Fn)

\* genreBonus[genre]?.[category] || 0
BonusLookup(genre, category) ==
    IF genre \in DOMAIN genreBonus
    THEN IF category \in DOMAIN genreBonus[genre]
         THEN Num(genreBonus[genre][category])
         ELSE IF category = s_constructor THEN Fn ELSE Num(0)
    ELSE IF genre = s_constructor /\ category \in DOMAIN ObjectProps
         THEN ObjectProps[category]
         ELSE Num(0)

\* score += bonus: a number is added, anything else is concatenated to a string
AddBonus(score, bonus) ==
    IF bonus.t = "number" THEN Num(score + bonus.n)
    ELSE IF bonus.t = "string" THEN Str(ToString(score) \o bonus.s)
    ELSE Str(ToString(score) \o "function Object() { [native code] }")

\* score += 10
AddTen(score) ==
    IF score.t = "number" THEN Num(score.n + 10) ELSE Str(score.s \o "10")

Min2(a, b) == IF a < b THEN a ELSE b
Max2(a, b) == IF a > b THEN a ELSE b

\* Math.min(Math.max(score, 0), 100): a string that is no numeral gives NaN
Clamp(score) ==
    IF score.t = "number" THEN Num(Min2(Max2(score.n, 0), 100)) ELSE NaN

calculateFallbackScore(videoData, campaignData) ==
    LET base == 50
        bonus == BonusLookup(toLowerCase(videoData.genre),
                             toLowerCase(campaignData.category))
        score1 == AddBonus(base, bonus)
        score2 == IF /\ includes(toLowerCase(videoData.tone), s_professional)
                     /\ includes(toLowerCase(campaignData.category), s_business)
                  THEN AddTen(score1)
                  ELSE score1
    IN  Clamp(score2)

\* `${fallbackScore}` in the template literal
NumberToString(v) == IF v.t = "number" THEN ToString(v.n) ELSE "NaN"

FallbackReasoning(fallbackScore) ==
    "Automated match based on genre and category compatibility. Score: "
        \o NumberToString(fallbackScore) \o "/100"

\* faulty variant: the reasoning is built from the base score, not from the final one
FallbackResult_baseReasoning(videoData, campaignData) ==
    ("score" :> calculateFallbackScore(videoData, campaignData)) @@
    ("reasoning" :> Str(FallbackReasoning(Num(50))))

FallbackResult(videoData, campaignData) ==
    LET fallbackScore == calculateFallbackScore(videoData, campaignData)
    IN  ("score" :> fallbackScore) @@
        ("reasoning" :> Str(FallbackReasoning(fallbackScore)))

(***************************************************************************)
(* The text of the external generator, as a sequence of tokens.            *)
(***************************************************************************)
Tok(k, s, n) == [k |-> k, s |-> s, n |-> n]
LB == Tok("{", "", 0)
RB == Tok("}", "", 0)
COLON == Tok(":", "", 0)
COMMA == Tok(",", "", 0)
TS(s) == Tok("string", s, 0)    \* a JSON string literal
TN(n) == Tok("number", "", n)   \* a JSON number literal
TW(s) == Tok("word", s, 0)      \* a word of prose

\* faulty variant: the match is lazy, from the first { to the first } after it
jsonMatch_lazy(text) ==
    LET lbs == {i \in 1..Len(text) : text[i] = LB}
    IN  IF lbs = {} THEN <<>>
        ELSE LET first == CHOOSE i \in lbs : \A j \in lbs : i <= j
                 rbs == {i \in 1..Len(text) : text[i] = RB /\ i > first}
             IN  IF rbs = {} THEN <<>>
                 ELSE LET last == CHOOSE i \in rbs : \A j \in rbs : i <= j
                      IN  SubSeq(text, first, last)

\* response.text.match(/\{[\s\S]*\}/): greedy, from the first { to the last }
\* that follows it; <<>> stands for null (no match)
jsonMatch(text) ==
    LET lbs == {i \in 1..Len(text) : text[i] = LB}
    IN  IF lbs = {} THEN <<>>
        ELSE LET first == CHOOSE i \in lbs : \A j \in lbs : i <= j
                 rbs == {i \in 1..Len(text) : text[i] = RB /\ i > first}
             IN  IF rbs = {} THEN <<>>
                 ELSE LET last == CHOOSE i \in rbs : \A j \in rbs : j <= i
                      IN  SubSeq(text, first, last)

(***************************************************************************)
(* JSON.parse on tokens.  A parse result is [ok, v, next]: whether a value *)
(* was read at position i, the value, and the position after it.           *)
(***************************************************************************)
ParseFail == [ok |-> FALSE, v |-> Undefined, next |-> 0]

RECURSIVE ParseValue(_, _), ParseMembers(_, _, _)

ParseValue(toks, i) ==
    IF i > Len(toks) THEN ParseFail
    ELSE IF toks[i].k = "number" THEN [ok |-> TRUE, v |-> Num(toks[i].n), next |-> i + 1]
    ELSE IF toks[i].k = "string" THEN [ok |-> TRUE, v |-> Str(toks[i].s), next |-> i + 1]
    ELSE IF toks[i] = LB
         THEN IF i + 1 <= Len(toks) /\ toks[i + 1] = RB
              THEN [ok |-> TRUE, v |-> Obj(<<>>), next |-> i + 2]
              ELSE ParseMembers(toks, i + 1, <<>>)
    ELSE ParseFail

\* members "key": value, ... up to the closing brace; a repeated key keeps
\* its last value
ParseMembers(toks, i, acc) ==
    IF i + 1 > Len(toks) \/ toks[i].k # "string" \/ toks[i + 1] # COLON
    THEN ParseFail
    ELSE LET r == ParseValue(toks, i + 2)
             key == toks[i].s
             acc2 == [k \in (DOMAIN acc) \cup {key} |->
                         IF k = key THEN r.v ELSE acc[k]]
         IN  IF ~r.ok \/ r.next > Len(toks) THEN ParseFail
             ELSE IF toks[r.next] = RB
                  THEN [ok |-> TRUE, v |-> Obj(acc2), next |-> r.next + 1]
             ELSE IF toks[r.next] = COMMA
                  THEN ParseMembers(toks, r.next + 1, acc2)
             ELSE ParseFail

\* JSON.parse(text): [ok |-> FALSE] stands for the SyntaxError it throws
JSONparse(toks) ==
    LET r == ParseValue(toks, 1)
    IN  IF r.ok /\ r.next = Len(toks) + 1 THEN r ELSE ParseFail

(***************************************************************************)
(* GeminiService.findMatches.  The outcome of generateContent is           *)
(*   [kind |-> "throw"]   the call rejects (network error, rate limit),    *)
(*   [kind |-> "notext"]  the response has no text (response.text is       *)
(*                        undefined, so .match throws a TypeError),        *)
(*   [kind |-> "text"]    the response carries the token sequence text.    *)
(* The result is the returned object, a function from its keys to values.  *)
(***************************************************************************)
OutThrow == [kind |-> "throw", text |-> <<>>]
OutNoText == [kind |-> "notext", text |-> <<>>]
OutText(text) == [kind |-> "text", text |-> text]

\* TRUE when control reaches the catch block
GenFails(outcome) ==
    \/ outcome.kind = "throw"
    \/ outcome.kind = "notext"
    \/ jsonMatch(outcome.text) = <<>>
    \/ ~JSONparse(jsonMatch(outcome.text)).ok

findMatches(videoData, campaignData, outcome) ==
    IF GenFails(outcome)
    THEN FallbackResult(videoData, campaignData)
    ELSE JSONparse(jsonMatch(outcome.text)).v.o

(***************************************************************************)
(* SpecGen: findMatches applied to bounded inputs.                         *)
(***************************************************************************)
s_Educational == <<"E","d","u","c","a","t","i","o","n","a","l">>
s_vlog == <<"v","l","o","g">>
s_funny == <<"f","u","n","n","y">>
s_VeryProfessional == <<"V","e","r","y"," ","P","r","o","f","e","s","s","i","o","n","a","l">>
s_BusinessSolutions == <<"B","u","s","i","n","e","s","s"," ","S","o","l","u","t","i","o","n","s">>
s_unknown == <<"u","n","k","n","o","w","n">>

GenGenres == {s_comedy, s_Educational, s_constructor, s_vlog}
GenTones == {s_funny, s_VeryProfessional}
GenCategories ==
    {s_entertainment, s_technology, s_BusinessSolutions, s_unknown, s_name, s_length}

GenVideos == [genre : GenGenres, tone : GenTones]
GenCampaigns == [category : GenCategories]

\* bound: the number of prose words before and after the core of a text
MaxProse == 1

RECURSIVE Prose(_)
Prose(n) == IF n = 0 THEN <<>> ELSE <<TW("word")>> \o Prose(n - 1)

\* one "key": value member
Member(key, val) == <<TS(key), COLON, val>>

objGood == <<LB>> \o Member("score", TN(85)) \o <<COMMA>>
              \o Member("reasoning", TS("Strong genre and category fit")) \o <<RB>>
objLow == <<LB>> \o Member("score", TN(40)) \o <<COMMA>>
              \o Member("reasoning", TS("Weak fit")) \o <<RB>>
objHigh == <<LB>> \o Member("score", TN(150)) \o <<COMMA>>
              \o Member("reasoning", TS("Off the scale")) \o <<RB>>
objNegative == <<LB>> \o Member("score", TN(-5)) \o <<COMMA>>
              \o Member("reasoning", TS("No fit")) \o <<RB>>
objScoreOnly == <<LB>> \o Member("score", TN(85)) \o <<RB>>
objOtherKey == <<LB>> \o Member("rating", TN(85)) \o <<RB>>
objEmpty == <<LB, RB>>
objStringScore == <<LB>> \o Member("score", TS("high")) \o <<COMMA>>
              \o Member("reasoning", TS("Strong fit")) \o <<RB>>
objNested == <<LB, TS("result"), COLON>> \o objGood \o <<RB>>
objRepeatedKey == <<LB>> \o Member("score", TN(85)) \o <<COMMA>>
              \o Member("score", TN(40)) \o <<RB>>
badNoColon == <<LB, TS("score"), TN(85), RB>>
badTrailingComma == <<LB>> \o Member("score", TN(85)) \o <<COMMA, RB>>
badNoValue == <<LB, TS("score"), COLON, RB>>
badBareKey == <<LB, TW("score"), COLON, TN(85), RB>>

ValidObjects ==
    {objGood, objLow, objHigh, objNegative, objScoreOnly, objOtherKey, objEmpty,
     objStringScore, objNested, objRepeatedKey}
BadObjects == {badNoColon, badTrailingComma, badNoValue, badBareKey}

\* the cores: nothing, one object (valid or not), two objects, a lone brace
Cores ==
    {<<>>} \cup ValidObjects \cup BadObjects
        \cup {objGood \o objLow, <<LB>>, <<RB>>, <<RB, LB>>}

\* what may follow the core: prose, or prose closed by a brace
Suffixes ==
    {Prose(n) : n \in 0..MaxProse} \cup {Prose(n) \o <<RB>> : n \in 1..MaxProse}

\* what may precede the core: prose, or an opening brace and prose
Prefixes ==
    {Prose(n) : n \in 0..MaxProse} \cup {<<LB>> \o Prose(n) : n \in 1..MaxProse}

GenTexts == {p \o c \o s : p \in Prefixes, c \in Cores, s \in Suffixes}

GenOutcomes == {OutThrow, OutNoText} \cup {OutText(t) : t \in GenTexts}

NoResult == [called |-> FALSE, value |-> <<>>]
Returned(obj) == [called |-> TRUE, value |-> obj]


(***************************************************************************)
(* The store and the actors of the request handlers.                       *)
(***************************************************************************)
Creators == {"creator1", "creator2"}
Marketers == {"marketer1", "marketer2"}
Users == Creators \cup Marketers

\* userSchema.role
role(user) == IF user \in Creators THEN "creator" ELSE "marketer"

\* bound: the number of videos and campaigns together
MaxEntities == 3

\* one megabyte, in bytes
MB == 1024 * 1024

\* limits.fileSize of the one multer instance behind uploadVideo and uploadAsset
fileSize == 50 * MB

\* an uploaded file: its size in bytes and its MIME type
File(size, mimetype) == [size |-> size, mimetype |-> mimetype]
NoFile == File(0, "")

\* the MIME types that start with "video/" and with "image/"
VideoTypes == {"video/mp4"}
ImageTypes == {"image/png"}

\* fileFilter: cb(null, true), or cb(new Error(...)) when FALSE
fileFilter(fieldname, file) ==
    IF fieldname = "video" THEN file.mimetype \in VideoTypes
    ELSE IF fieldname = "asset" THEN file.mimetype \in ImageTypes \cup VideoTypes
    ELSE FALSE

\* upload.single(fieldname): the file passes the filter and is not larger
\* than limits.fileSize; otherwise the callback gets err
multerAccepts(fieldname, file) ==
    fileFilter(fieldname, file) /\ file.size <= fileSize

\* the upload requests: who uploads, the attributes that the matching reads,
\* and the file
VideoUploads ==
    {[actor |-> "creator1", genre |-> s_comedy, tone |-> s_funny,
      file |-> File(10 * MB, "video/mp4")],
     [actor |-> "creator2", genre |-> s_vlog, tone |-> s_VeryProfessional,
      file |-> File(10 * MB, "video/mp4")]}

\* the campaign creation requests
CampaignCreations ==
    {[actor |-> "marketer1", category |-> s_entertainment,
      file |-> File(MB, "image/png")],
     [actor |-> "marketer2", category |-> s_BusinessSolutions,
      file |-> File(MB, "image/png")]}

\* the files that the upload routes are run against in SpecUpload: at and
\* just above 5MB and 50MB, and one that is neither image nor video
Files ==
    {File(5 * MB, "image/png"), File(5 * MB + 1, "image/png"),
     File(5 * MB + 1, "video/mp4"), File(50 * MB, "video/mp4"),
     File(50 * MB + 1, "video/mp4"), File(50 * MB + 1, "image/png"),
     File(MB, "text/plain")}

\* the answers of the external generator that the handlers are run against:
\* a failed call, a score of 150, an object without a score
ServerOutcomes ==
    {OutThrow, OutText(objHigh), OutText(objOtherKey)}

\* the request slots: Spec uses the first, SpecConc both
Slots == {1, 2}

\* new Video({...}): status defaults to "uploaded"
NewVideo(actor, attrs) ==
    [creatorId |-> actor, status |-> "uploaded",
     genre |-> attrs.genre, tone |-> attrs.tone]

\* new Campaign({...})
NewCampaign(actor, attrs) ==
    [marketerId |-> actor, category |-> attrs.category]

\* mongoose's cast of reasoning to the schema type String
CastString(v) ==
    IF v.t = "number" THEN Str(ToString(v.n)) ELSE v

\* faulty variant: a new match is stored as accepted
NewMatch_accepted(videoId, campaignId, aiResult) ==
    [videoId |-> videoId, campaignId |-> campaignId,
     matchScore |-> Get(aiResult, "score").n,
     reasoning |-> CastString(Get(aiResult, "reasoning")),
     status |-> "accepted"]

\* new Match({videoId, campaignId, matchScore, reasoning}): status defaults
\* to "pending"
NewMatch(videoId, campaignId, aiResult) ==
    [videoId |-> videoId, campaignId |-> campaignId,
     matchScore |-> Get(aiResult, "score").n,
     reasoning |-> CastString(Get(aiResult, "reasoning")),
     status |-> "pending"]

\* newMatch.save() validates: matchScore is a required Number, reasoning an
\* optional String; a value that does not cast makes save() throw
SaveValid(aiResult) ==
    /\ Get(aiResult, "score").t = "number"
    /\ Get(aiResult, "reasoning").t \in {"string", "number", "undefined"}

\* faulty variant: the query has the two ids the wrong way round
findOne_swapped(store, videoId, campaignId) ==
    LET hits == {i \in 1..Len(store) :
                    store[i].videoId = campaignId /\ store[i].campaignId = videoId}
    IN  IF hits = {} THEN 0 ELSE CHOOSE i \in hits : \A j \in hits : i <= j

\* Match.findOne({videoId, campaignId}): the id of the first record of the
\* pair in natural order, 0 for null
findOne(store, videoId, campaignId) ==
    LET hits == {i \in 1..Len(store) :
                    store[i].videoId = videoId /\ store[i].campaignId = campaignId}
    IN  IF hits = {} THEN 0 ELSE CHOOSE i \in hits : \A j \in hits : i <= j

\* faulty variant: the document is handed out with the default status
MatchDoc_defaultStatus(store, id) ==
    [id |-> id, videoId |-> store[id].videoId, campaignId |-> store[id].campaignId,
     matchScore |-> store[id].matchScore, reasoning |-> store[id].reasoning,
     status |-> "pending"]

\* Match.findById(id).populate(...): the document as it is read now
MatchDoc(store, id) ==
    [id |-> id, videoId |-> store[id].videoId, campaignId |-> store[id].campaignId,
     matchScore |-> store[id].matchScore, reasoning |-> store[id].reasoning,
     status |-> store[id].status]

(***************************************************************************)
(* matches.sort((a, b) => b.matchScore - a.matchScore)                     *)
(* Array.prototype.sort is stable: an element goes after every element     *)
(* that the comparator does not put behind it.                             *)
(***************************************************************************)
\* faulty variant: the comparator sorts ascending
compareMatches_ascending(a, b) == a.matchScore - b.matchScore

compareMatches(a, b) == b.matchScore - a.matchScore

RECURSIVE InsertSorted(_, _)
InsertSorted(sorted, x) ==
    IF sorted = <<>> THEN <<x>>
    ELSE IF compareMatches(Head(sorted), x) <= 0
         THEN <<Head(sorted)>> \o InsertSorted(Tail(sorted), x)
         ELSE <<x>> \o sorted

RECURSIVE sortMatches(_)
sortMatches(list) ==
    IF list = <<>> THEN <<>>
    ELSE InsertSorted(sortMatches(SubSeq(list, 1, Len(list) - 1)), list[Len(list)])

(***************************************************************************)
(* POST /api/ai/find-matches.  A request in flight is a record; its pc is  *)
(* the await it is suspended at:                                           *)
(*   "check"    Match.findOne for the pair at list[idx]                    *)
(*   "gen"      geminiService.findMatches                                  *)
(*   "save"     newMatch.save()                                            *)
(*   "mark"     Video.findByIdAndUpdate, then Match.findById and push      *)
(*   "campaign" Campaign.findById of the campaign branch                   *)
(*   "done"     the response has been sent                                 *)
(* created, calls and marks count what the request has done so far.        *)
(* route is the route of the request; an accept or reject request is       *)
(* served in one step and only leaves its answer (matchId, code); so is an  *)
(* upload or a campaign creation (file, code).                             *)
(***************************************************************************)
NoList == [has |-> FALSE, list |-> <<>>]

IdleReq ==
    [pc |-> "idle", route |-> "", actor |-> "", videoId |-> 0, campaignId |-> 0,
     matchId |-> 0, file |-> NoFile, branch |-> "", list |-> <<>>, idx |-> 0, aiResult |-> <<>>, newId |-> 0,
     matches |-> <<>>, code |-> 0, prev |-> NoList,
     created |-> 0, calls |-> 0, marks |-> 0]

\* res.status(code).json(...) and return
Respond(r, code) == [r EXCEPT !.pc = "done", !.code = code]

\* the end of the handler: sort, then res.json({success: true, ...})
Finish(r) ==
    [r EXCEPT !.pc = "done", !.code = 200, !.matches = sortMatches(r.matches)]

\* the pair that the loop is at
PairVideo(r) == IF r.branch = "video" THEN r.videoId ELSE r.list[r.idx]
PairCampaign(r) == IF r.branch = "video" THEN r.list[r.idx] ELSE r.campaignId

\* faulty variant: the loop stops before the last element of the list
Continue_skipLast(r) ==
    IF r.idx < Len(r.list) THEN [r EXCEPT !.pc = "check"]
    ELSE IF r.branch = "video" /\ r.campaignId # 0 THEN [r EXCEPT !.pc = "campaign"]
    ELSE Finish(r)

\* the next iteration of the for loop, or what follows the loop
Continue(r) ==
    IF r.idx <= Len(r.list) THEN [r EXCEPT !.pc = "check"]
    ELSE IF r.branch = "video" /\ r.campaignId # 0 THEN [r EXCEPT !.pc = "campaign"]
    ELSE Finish(r)

\* faulty variant: the ownership check tests for the wrong role
EnterVideo_wrongRole(r, vs, cs) ==
    IF r.videoId \notin DOMAIN vs THEN Respond(r, 404)
    ELSE IF role(r.actor) = "marketer" /\ vs[r.videoId].creatorId # r.actor
         THEN Respond(r, 403)
    ELSE Continue([r EXCEPT !.branch = "video",
                            !.list = [i \in 1..Len(cs) |-> i], !.idx = 1])

\* if (videoId) { Video.findById; the ownership check; Campaign.find() }
EnterVideo(r, vs, cs) ==
    IF r.videoId \notin DOMAIN vs THEN Respond(r, 404)
    ELSE IF role(r.actor) = "creator" /\ vs[r.videoId].creatorId # r.actor
         THEN Respond(r, 403)
    ELSE Continue([r EXCEPT !.branch = "video",
                            !.list = [i \in 1..Len(cs) |-> i], !.idx = 1])

\* faulty variant: the ownership check tests for the wrong role
EnterCampaign_wrongRole(r, vs, cs) ==
    IF r.campaignId \notin DOMAIN cs THEN Respond(r, 404)
    ELSE IF role(r.actor) = "creator" /\ cs[r.campaignId].marketerId # r.actor
         THEN Respond(r, 403)
    ELSE Continue([r EXCEPT !.branch = "campaign",
                            !.list = [i \in 1..Len(vs) |-> i], !.idx = 1])

\* if (campaignId) { Campaign.findById; the ownership check; Video.find() }
EnterCampaign(r, vs, cs) ==
    IF r.campaignId \notin DOMAIN cs THEN Respond(r, 404)
    ELSE IF role(r.actor) = "marketer" /\ cs[r.campaignId].marketerId # r.actor
         THEN Respond(r, 403)
    ELSE Continue([r EXCEPT !.branch = "campaign",
                            !.list = [i \in 1..Len(vs) |-> i], !.idx = 1])

\* the projection of a response that a later response is compared with
Projection(list) ==
    [i \in 1..Len(list) |->
        [videoId |-> list[i].videoId, campaignId |-> list[i].campaignId,
         matchScore |-> list[i].matchScore, reasoning |-> list[i].reasoning]]

\* history: a successful request for a video alone records what it returned
RecordList(last, r) ==
    IF r.pc = "done" /\ r.code = 200 /\ r.videoId # 0 /\ r.campaignId = 0
    THEN [last EXCEPT ![r.videoId] = [has |-> TRUE, list |-> Projection(r.matches)]]
    ELSE last

\* the request arrives (authenticateToken has passed) and runs to its first
\* await in the loop
StartFindMatches(p, actor, videoId, campaignId) ==
    /\ req[p].pc = "idle"
    /\ LET r0 == [IdleReq EXCEPT !.route = "find-matches",
                                 !.actor = actor, !.videoId = videoId,
                                 !.campaignId = campaignId,
                                 !.prev = IF videoId # 0 THEN lastList[videoId]
                                          ELSE NoList]
           r1 == IF videoId = 0 /\ campaignId = 0 THEN Respond(r0, 400)
                 ELSE IF videoId # 0 THEN EnterVideo(r0, videos, campaigns)
                 ELSE EnterCampaign(r0, videos, campaigns)
       IN  /\ req' = [req EXCEPT ![p] = r1]
           /\ lastList' = RecordList(lastList, r1)
    /\ UNCHANGED <<videos, campaigns, matchStore>>
    /\ UNCHANGED <<genVars, chatVars>>

\* faulty variant: the continue after the push of an existing match is missing
CheckExisting_noContinue(p) ==
    /\ req[p].pc = "check"
    /\ LET r == req[p]
           existingMatch == findOne(matchStore, PairVideo(r), PairCampaign(r))
       IN  req' = [req EXCEPT ![p] =
                      IF existingMatch # 0
                      THEN [r EXCEPT !.pc = "gen",
                                !.matches = Append(r.matches,
                                                MatchDoc(matchStore, existingMatch))]
                      ELSE [r EXCEPT !.pc = "gen"]]
    /\ UNCHANGED <<videos, campaigns, matchStore, lastList>>
    /\ UNCHANGED <<genVars, chatVars>>

\* const existingMatch = await Match.findOne(...); if found, push and continue
CheckExisting(p) ==
    /\ req[p].pc = "check"
    /\ LET r == req[p]
           existingMatch == findOne(matchStore, PairVideo(r), PairCampaign(r))
           r1 == IF existingMatch # 0
                 THEN Continue([r EXCEPT
                          !.matches = Append(r.matches, MatchDoc(matchStore, existingMatch)),
                          !.idx = r.idx + 1])
                 ELSE [r EXCEPT !.pc = "gen"]
       IN  /\ req' = [req EXCEPT ![p] = r1]
           /\ lastList' = RecordList(lastList, r1)
    /\ UNCHANGED <<videos, campaigns, matchStore>>
    /\ UNCHANGED <<genVars, chatVars>>

\* const aiResult = await geminiService.findMatches(video, campaign)
Generate(p, outcome) ==
    /\ req[p].pc = "gen"
    /\ LET r == req[p]
       IN  req' = [req EXCEPT ![p] =
                      [r EXCEPT !.pc = "save", !.calls = r.calls + 1,
                                !.aiResult = findMatches(videos[PairVideo(r)],
                                                         campaigns[PairCampaign(r)],
                                                         outcome)]]
    /\ UNCHANGED <<videos, campaigns, matchStore, lastList>>
    /\ UNCHANGED <<genVars, chatVars>>

\* await newMatch.save(); a validation error goes to the catch block (500)
SaveMatch(p) ==
    /\ req[p].pc = "save"
    /\ LET r == req[p]
       IN  IF SaveValid(r.aiResult)
           THEN /\ matchStore' = Append(matchStore,
                       NewMatch(PairVideo(r), PairCampaign(r), r.aiResult))
                /\ req' = [req EXCEPT ![p] =
                       [r EXCEPT !.pc = "mark", !.newId = Len(matchStore) + 1,
                                 !.created = r.created + 1, !.aiResult = <<>>]]
           ELSE /\ matchStore' = matchStore
                /\ req' = [req EXCEPT ![p] = Respond([r EXCEPT !.aiResult = <<>>], 500)]
    /\ UNCHANGED <<videos, campaigns, lastList>>
    /\ UNCHANGED <<genVars, chatVars>>

\* await Video.findByIdAndUpdate(id, {status: "matched"}); then the new match
\* is read back and pushed
MarkMatched(p) ==
    /\ req[p].pc = "mark"
    /\ LET r == req[p]
           r1 == Continue([r EXCEPT
                     !.matches = Append(r.matches, MatchDoc(matchStore, r.newId)),
                     !.idx = r.idx + 1, !.newId = 0, !.marks = r.marks + 1])
       IN  /\ videos' = [videos EXCEPT ![PairVideo(r)].status = "matched"]
           /\ req' = [req EXCEPT ![p] = r1]
           /\ lastList' = RecordList(lastList, r1)
    /\ UNCHANGED <<campaigns, matchStore>>
    /\ UNCHANGED <<genVars, chatVars>>

\* the campaign branch of a request that named a video too
CampaignBranch(p) ==
    /\ req[p].pc = "campaign"
    /\ LET r1 == EnterCampaign(req[p], videos, campaigns)
       IN  /\ req' = [req EXCEPT ![p] = r1]
           /\ lastList' = RecordList(lastList, r1)
    /\ UNCHANGED <<videos, campaigns, matchStore>>
    /\ UNCHANGED <<genVars, chatVars>>

\* the response has been delivered; the slot is free again
EndRequest(p) ==
    /\ req[p].pc = "done"
    /\ req' = [req EXCEPT ![p] = IdleReq]
    /\ UNCHANGED <<videos, campaigns, matchStore, lastList>>
    /\ UNCHANGED <<genVars, chatVars>>

(***************************************************************************)
(* The other handlers; each is one step.                                   *)
(***************************************************************************)
\* what requireRole(role) and multer answer before the handler body runs:
\* 403, 400, or 201 to go on (the body carries every required field)
UploadCode(requiredRole, fieldname, actor, file) ==
    IF role(actor) # requiredRole THEN 403
    ELSE IF ~multerAccepts(fieldname, file) THEN 400
    ELSE 201

\* the answered upload or campaign creation request
Uploaded(route, actor, file, code) ==
    [IdleReq EXCEPT !.pc = "done", !.route = route, !.actor = actor,
                    !.file = file, !.code = code]

\* POST /api/videos/upload (requireRole("creator"), uploadVideo)
UploadVideo(p, actor, attrs, file) ==
    /\ req[p].pc = "idle"
    /\ Len(videos) + Len(campaigns) < MaxEntities
    /\ LET code == UploadCode("creator", "video", actor, file)
       IN  /\ req' = [req EXCEPT ![p] = Uploaded("upload-video", actor, file, code)]
           /\ IF code = 201
              THEN videos' = Append(videos, NewVideo(actor, attrs))
              ELSE UNCHANGED videos
    /\ UNCHANGED <<campaigns, matchStore, lastList>>
    /\ UNCHANGED <<genVars, chatVars>>

\* POST /api/campaigns/create (requireRole("marketer"), uploadAsset)
CreateCampaign(p, actor, attrs, file) ==
    /\ req[p].pc = "idle"
    /\ Len(videos) + Len(campaigns) < MaxEntities
    /\ LET code == UploadCode("marketer", "asset", actor, file)
       IN  /\ req' = [req EXCEPT ![p] = Uploaded("create-campaign", actor, file, code)]
           /\ IF code = 201
              THEN /\ campaigns' = Append(campaigns, NewCampaign(actor, attrs))
                   /\ lastList' = [v \in DOMAIN lastList |-> NoList]
              ELSE UNCHANGED <<campaigns, lastList>>
    /\ UNCHANGED <<videos, matchStore>>
    /\ UNCHANGED <<genVars, chatVars>>

\* the creator that owns the video of the match
MatchOwner(matchId) == videos[matchStore[matchId].videoId].creatorId

\* what requireRole("creator"), Match.findById and the ownership check answer
\* before anything is written: 403, 404, 403, or 200 to go on
AcceptCode(actor, matchId) ==
    IF role(actor) # "creator" THEN 403
    ELSE IF matchId \notin DOMAIN matchStore THEN 404
    ELSE IF MatchOwner(matchId) # actor THEN 403
    ELSE 200

\* the answered accept or reject request
Answered(route, actor, matchId, code) ==
    [IdleReq EXCEPT !.pc = "done", !.route = route, !.actor = actor,
                    !.matchId = matchId, !.code = code]

\* faulty variant: any creator may accept
AcceptMatch_anyCreator(p, actor, matchId) ==
    /\ req[p].pc = "idle"
    /\ LET code == IF role(actor) # "creator" THEN 403
                   ELSE IF matchId \notin DOMAIN matchStore THEN 404
                   ELSE 200
       IN  /\ req' = [req EXCEPT ![p] = Answered("accept", actor, matchId, code)]
           /\ IF code = 200
              THEN /\ matchStore' = [matchStore EXCEPT ![matchId].status = "accepted"]
                   /\ videos' = [videos EXCEPT
                                    ![matchStore[matchId].videoId].status = "approved"]
              ELSE UNCHANGED <<matchStore, videos>>
    /\ UNCHANGED <<campaigns, lastList>>
    /\ UNCHANGED <<genVars, chatVars>>

\* PUT /api/matches/:matchId/accept (requireRole("creator")); 404 and 403
\* leave the store as it is
AcceptMatch(p, actor, matchId) ==
    /\ req[p].pc = "idle"
    /\ LET code == AcceptCode(actor, matchId)
       IN  /\ req' = [req EXCEPT ![p] = Answered("accept", actor, matchId, code)]
           /\ IF code = 200
              THEN /\ matchStore' = [matchStore EXCEPT ![matchId].status = "accepted"]
                   /\ videos' = [videos EXCEPT
                                    ![matchStore[matchId].videoId].status = "approved"]
              ELSE UNCHANGED <<matchStore, videos>>
    /\ UNCHANGED <<campaigns, lastList>>
    /\ UNCHANGED <<genVars, chatVars>>

\* faulty variant: a rejected match loses its score
RejectMatch_resetsScore(p, actor, matchId) ==
    /\ req[p].pc = "idle"
    /\ LET code == AcceptCode(actor, matchId)
       IN  /\ req' = [req EXCEPT ![p] = Answered("reject", actor, matchId, code)]
           /\ IF code = 200
              THEN matchStore' = [matchStore EXCEPT ![matchId].status = "rejected",
                                                    ![matchId].matchScore = 0]
              ELSE UNCHANGED matchStore
    /\ UNCHANGED <<videos, campaigns, lastList>>
    /\ UNCHANGED <<genVars, chatVars>>

\* PUT /api/matches/:matchId/reject (requireRole("creator"))
RejectMatch(p, actor, matchId) ==
    /\ req[p].pc = "idle"
    /\ LET code == AcceptCode(actor, matchId)
       IN  /\ req' = [req EXCEPT ![p] = Answered("reject", actor, matchId, code)]
           /\ IF code = 200
              THEN matchStore' = [matchStore EXCEPT ![matchId].status = "rejected"]
              ELSE UNCHANGED matchStore
    /\ UNCHANGED <<videos, campaigns, lastList>>
    /\ UNCHANGED <<genVars, chatVars>>

(***************************************************************************)
(* The chat routes.  A chat request in flight is a record; its pc is the   *)
(* await it is suspended at:                                               *)
(*   "saveUser"        userMessage.save()                                  *)
(*   "ai"              Campaign.find, Video.find, processChatQuery         *)
(*   "saveAi"          aiMessage.save()                                    *)
(*   "deleteMessages"  Message.deleteMany({chatId})                        *)
(*   "deleteChat"      Chat.findByIdAndDelete(chatId)                      *)
(*   "done"            the response has been sent                          *)
(* A deleted chat keeps its place in chats, so that ids are never reused.  *)
(***************************************************************************)
\* bound: the number of chats ever created
MaxChats == 2

\* bound: the number of messages stored at one time
MaxMessages == 2

\* the request slots of the chat routes
ChatSlots == {1, 2}

\* req.body.title and req.body.content: absent ("") or present
Titles == {"", "Summer campaign"}
Contents == {"", "Which videos fit my campaign?"}

\* the outcomes of generateContent inside processChatQuery: the call rejects,
\* the response has no text, or it has the text reply (possibly empty)
ChatOutcomes ==
    {[kind |-> "throw", reply |-> ""],
     [kind |-> "notext", reply |-> ""],
     [kind |-> "text", reply |-> ""],
     [kind |-> "text", reply |-> "Your comedy videos fit best."]}

\* GeminiService.processChatQuery: response.text, or the apology when the
\* call throws
processChatQuery(outcome) ==
    IF outcome.kind = "throw"
    THEN Str("I'm sorry, I'm having trouble processing your request right now. Please try again later.")
    ELSE IF outcome.kind = "notext" THEN Undefined
    ELSE Str(outcome.reply)

\* messageSchema.content: {type: String, required: true}
ContentValid(v) == v.t = "string" /\ v.s # ""

\* new Chat({title, marketerId})
NewChat(actor) == [marketerId |-> actor, deleted |-> FALSE]

\* new Message({chatId, content, sender})
NewMessage(chatId, content, sender) ==
    [chatId |-> chatId, content |-> content, sender |-> sender]

\* Chat.findOne({_id: chatId, marketerId: req.user._id}) finds a chat
FindChat(chatId, actor) ==
    /\ chatId \in DOMAIN chats
    /\ ~chats[chatId].deleted
    /\ chats[chatId].marketerId = actor

IdleChatReq ==
    [pc |-> "idle", route |-> "", actor |-> "", chatId |-> 0,
     content |-> "", aiResponse |-> Undefined, code |-> 0]

\* the saves that the send-message request r still has before it
PendingSaves(r) ==
    IF r.pc = "saveUser" THEN 2
    ELSE IF r.pc \in {"ai", "saveAi"} THEN 1
    ELSE 0

\* the messages stored and those that the requests in flight may still save
MessagesInSight ==
    Len(messages)
        + PendingSaves(chatReq[1]) + PendingSaves(chatReq[2])

\* POST /api/chat/create (requireRole("marketer"))
CreateChat(s, actor, title) ==
    /\ chatReq[s].pc = "idle"
    /\ Len(chats) < MaxChats
    /\ LET code == IF role(actor) # "marketer" THEN 403
                   ELSE IF title = "" THEN 400
                   ELSE 201
       IN  /\ chatReq' = [chatReq EXCEPT ![s] =
                  [IdleChatReq EXCEPT !.pc = "done", !.route = "create",
                                      !.actor = actor, !.code = code]]
           /\ IF code = 201
              THEN chats' = Append(chats, NewChat(actor))
              ELSE UNCHANGED chats
    /\ UNCHANGED messages
    /\ UNCHANGED <<storeVars, genVars>>

\* POST /api/chat/:chatId/message up to userMessage.save():
\* requireRole("marketer"), the content check, Chat.findOne
StartSendMessage(s, actor, chatId, content) ==
    /\ chatReq[s].pc = "idle"
    /\ MessagesInSight + 2 <= MaxMessages
    /\ LET r == [IdleChatReq EXCEPT !.route = "message", !.actor = actor,
                                    !.chatId = chatId, !.content = content]
       IN  chatReq' = [chatReq EXCEPT ![s] =
               IF role(actor) # "marketer" THEN [r EXCEPT !.pc = "done", !.code = 403]
               ELSE IF content = "" THEN [r EXCEPT !.pc = "done", !.code = 400]
               ELSE IF ~FindChat(chatId, actor) THEN [r EXCEPT !.pc = "done", !.code = 404]
               ELSE [r EXCEPT !.pc = "saveUser"]]
    /\ UNCHANGED <<chats, messages>>
    /\ UNCHANGED <<storeVars, genVars>>

\* await userMessage.save()
SaveUserMessage(s) ==
    /\ chatReq[s].pc = "saveUser"
    /\ messages' = Append(messages,
                       NewMessage(chatReq[s].chatId, Str(chatReq[s].content), "user"))
    /\ chatReq' = [chatReq EXCEPT ![s].pc = "ai"]
    /\ UNCHANGED chats
    /\ UNCHANGED <<storeVars, genVars>>

\* await Campaign.find, await Video.find, await processChatQuery
ChatQuery(s, outcome) ==
    /\ chatReq[s].pc = "ai"
    /\ chatReq' = [chatReq EXCEPT ![s].pc = "saveAi",
                                  ![s].aiResponse = processChatQuery(outcome)]
    /\ UNCHANGED <<chats, messages>>
    /\ UNCHANGED <<storeVars, genVars>>

\* await aiMessage.save(); a validation error goes to the catch block (500)
SaveAiMessage(s) ==
    /\ chatReq[s].pc = "saveAi"
    /\ LET r == chatReq[s]
       IN  IF ContentValid(r.aiResponse)
           THEN /\ messages' = Append(messages, NewMessage(r.chatId, r.aiResponse, "ai"))
                /\ chatReq' = [chatReq EXCEPT ![s].pc = "done", ![s].code = 200]
           ELSE /\ UNCHANGED messages
                /\ chatReq' = [chatReq EXCEPT ![s].pc = "done", ![s].code = 500]
    /\ UNCHANGED chats
    /\ UNCHANGED <<storeVars, genVars>>

\* DELETE /api/chat/:chatId up to Message.deleteMany:
\* requireRole("marketer"), Chat.findOne
StartDeleteChat(s, actor, chatId) ==
    /\ chatReq[s].pc = "idle"
    /\ LET r == [IdleChatReq EXCEPT !.route = "delete", !.actor = actor,
                                    !.chatId = chatId]
       IN  chatReq' = [chatReq EXCEPT ![s] =
               IF role(actor) # "marketer" THEN [r EXCEPT !.pc = "done", !.code = 403]
               ELSE IF ~FindChat(chatId, actor) THEN [r EXCEPT !.pc = "done", !.code = 404]
               ELSE [r EXCEPT !.pc = "deleteMessages"]]
    /\ UNCHANGED <<chats, messages>>
    /\ UNCHANGED <<storeVars, genVars>>

\* await Message.deleteMany({chatId})
DeleteMessages(s) ==
    /\ chatReq[s].pc = "deleteMessages"
    /\ messages' = SelectSeq(messages, LAMBDA m : m.chatId # chatReq[s].chatId)
    /\ chatReq' = [chatReq EXCEPT ![s].pc = "deleteChat"]
    /\ UNCHANGED chats
    /\ UNCHANGED <<storeVars, genVars>>

\* await Chat.findByIdAndDelete(chatId); res.json
DeleteChat(s) ==
    /\ chatReq[s].pc = "deleteChat"
    /\ chats' = [chats EXCEPT ![chatReq[s].chatId].deleted = TRUE]
    /\ chatReq' = [chatReq EXCEPT ![s].pc = "done", ![s].code = 200]
    /\ UNCHANGED messages
    /\ UNCHANGED <<storeVars, genVars>>

\* the response has been delivered; the slot is free again
EndChatRequest(s) ==
    /\ chatReq[s].pc = "done"
    /\ chatReq' = [chatReq EXCEPT ![s] = IdleChatReq]
    /\ UNCHANGED <<chats, messages>>
    /\ UNCHANGED <<storeVars, genVars>>

(***************************************************************************)
(* The specifications.                                                     *)
(***************************************************************************)
\* the store after the server has started on an empty database
EmptyStore ==
    /\ videos = <<>>
    /\ campaigns = <<>>
    /\ matchStore = <<>>
    /\ req = [p \in Slots |-> IdleReq]
    /\ lastList = [v \in 1..MaxEntities |-> NoList]
    /\ chats = <<>>
    /\ messages = <<>>
    /\ chatReq = [s \in ChatSlots |-> IdleChatReq]

\* findMatches is not under study in Spec and SpecConc
GenUnused ==
    /\ gVideo = [genre |-> <<>>, tone |-> <<>>]
    /\ gCampaign = [category |-> <<>>]
    /\ gOutcome = OutThrow
    /\ gResult = NoResult

Init == EmptyStore /\ GenUnused

AllIdle == \A p \in Slots : req[p].pc = "idle"

\* a new request, of any handler, from any actor
Arrive(p) ==
    \/ \E actor \in Users, videoId \in 0..MaxEntities, campaignId \in 0..MaxEntities :
           StartFindMatches(p, actor, videoId, campaignId)
    \/ \E u \in VideoUploads : UploadVideo(p, u.actor, u, u.file)
    \/ \E c \in CampaignCreations : CreateCampaign(p, c.actor, c, c.file)
    \/ \E actor \in Users, matchId \in 1..(Len(matchStore) + 1) :
           AcceptMatch(p, actor, matchId)
    \/ \E actor \in Users, matchId \in 1..(Len(matchStore) + 1) :
           RejectMatch(p, actor, matchId)

\* a request in flight resumes from its await
Resume(p) ==
    \/ CheckExisting(p)
    \/ \E outcome \in ServerOutcomes : Generate(p, outcome)
    \/ SaveMatch(p)
    \/ MarkMatched(p)
    \/ CampaignBranch(p)
    \/ EndRequest(p)

\* one request at a time: a request arrives when none is in flight
Next ==
    \/ AllIdle /\ Arrive(1)
    \/ Resume(1)

Spec == Init /\ [][Next]_vars

\* SpecConc starts from a store that Spec reaches: one video of creator1 and
\* one campaign of marketer1, nothing matched yet
InitConc ==
    /\ videos = <<NewVideo("creator1", [genre |-> s_comedy, tone |-> s_funny])>>
    /\ campaigns = <<NewCampaign("marketer1", [category |-> s_entertainment])>>
    /\ matchStore = <<>>
    /\ req = [p \in Slots |-> IdleReq]
    /\ lastList = [v \in 1..MaxEntities |-> NoList]
    /\ chats = <<>>
    /\ messages = <<>>
    /\ chatReq = [s \in ChatSlots |-> IdleChatReq]
    /\ GenUnused

\* requests interleave at their awaits; the collections of videos and
\* campaigns stay as they are, and the requests name what exists
NextConc ==
    \/ \E p \in Slots, actor \in Users,
          videoId \in 0..Len(videos), campaignId \in 0..Len(campaigns) :
           StartFindMatches(p, actor, videoId, campaignId)
    \/ \E p \in Slots : Resume(p)

SpecConc == InitConc /\ [][NextConc]_vars

\* SpecUpload: the two upload routes alone, from any user and with any file
NextUpload ==
    \/ \E u \in VideoUploads, actor \in Users, file \in Files :
           UploadVideo(1, actor, u, file)
    \/ \E c \in CampaignCreations, actor \in Users, file \in Files :
           CreateCampaign(1, actor, c, file)
    \/ EndRequest(1)

SpecUpload == Init /\ [][NextUpload]_vars

\* SpecChat: the chat routes, requests interleaved at their awaits
NextChat ==
    \/ \E s \in ChatSlots, actor \in Users, title \in Titles :
           CreateChat(s, actor, title)
    \/ \E s \in ChatSlots, actor \in Users, chatId \in 1..MaxChats,
          content \in Contents :
           StartSendMessage(s, actor, chatId, content)
    \/ \E s \in ChatSlots : SaveUserMessage(s)
    \/ \E s \in ChatSlots, outcome \in ChatOutcomes : ChatQuery(s, outcome)
    \/ \E s \in ChatSlots : SaveAiMessage(s)
    \/ \E s \in ChatSlots, actor \in Users, chatId \in 1..MaxChats :
           StartDeleteChat(s, actor, chatId)
    \/ \E s \in ChatSlots : DeleteMessages(s)
    \/ \E s \in ChatSlots : DeleteChat(s)
    \/ \E s \in ChatSlots : EndChatRequest(s)

SpecChat == Init /\ [][NextChat]_vars

InitGen ==
    /\ EmptyStore
    /\ gVideo \in GenVideos
    /\ gCampaign \in GenCampaigns
    /\ gOutcome \in GenOutcomes
    /\ gResult = NoResult

\* await geminiService.findMatches(video, campaign)
GenCall ==
    /\ ~gResult.called
    /\ gResult' = Returned(findMatches(gVideo, gCampaign, gOutcome))
    /\ UNCHANGED <<gVideo, gCampaign, gOutcome>>
    /\ UNCHANGED <<storeVars, chatVars>>

NextGen == GenCall

SpecGen == InitGen /\ [][NextGen]_vars

(***************************************************************************)
(* The claims.                                                             *)
(***************************************************************************)
\* the find-matches request in slot p has been answered
Done(p) == req[p].pc = "done"

\* the pairs (videoId, campaignId) of the stored records
StoredPairs == {<<matchStore[i].videoId, matchStore[i].campaignId>> : i \in DOMAIN matchStore}

\* C1: with one request at a time (find-matches for a video or a campaign,
\* accept, reject, upload, campaign creation), the store never holds two
\* MatchRecords of the same (videoId, campaignId) pair.
C1_AtMostOneRecordPerPair ==
    \A i, j \in DOMAIN matchStore :
        (/\ matchStore[i].videoId = matchStore[j].videoId
         /\ matchStore[i].campaignId = matchStore[j].campaignId) => i = j

\* a request that named a video and a campaign met, in its campaign branch,
\* the record that its video branch had created
C1_Witness ==
    /\ Done(1) /\ req[1].code = 200
    /\ req[1].videoId # 0 /\ req[1].campaignId # 0
    /\ req[1].created >= 1
    /\ Len(req[1].matches) > Len(matchStore)

\* C2: a successful find-matches for a video that follows an earlier
\* successful one for the same video, with no campaign created in between,
\* creates no MatchRecord and returns the same pairs with the same score and
\* reasoning, in the same order, whatever the generator would answer.
C2_SecondCallReturnsSame ==
    \A p \in Slots :
        (/\ Done(p) /\ req[p].code = 200
         /\ req[p].videoId # 0 /\ req[p].campaignId = 0
         /\ req[p].prev.has)
        => /\ req[p].created = 0
           /\ Projection(req[p].matches) = req[p].prev.list

\* a second call for a video with two campaigns, one match accepted meanwhile
C2_Witness ==
    /\ Done(1) /\ req[1].code = 200
    /\ req[1].videoId # 0 /\ req[1].campaignId = 0
    /\ req[1].prev.has
    /\ Len(req[1].matches) = 2
    /\ \E i \in 1..2 : req[1].matches[i].status = "accepted"

\* C3 (as claimed): also when find-matches requests interleave at their
\* awaits, the store never holds two MatchRecords of the same pair.
C3_AtMostOneRecordPerPairConcurrent ==
    Cardinality(StoredPairs) = Len(matchStore)

\* the claim's conditions of failure, stated on the outcome itself
HasBraces(text) ==
    \E i, j \in 1..Len(text) : i < j /\ text[i] = LB /\ text[j] = RB

\* from the first { to the last }
BraceSpan(text) ==
    LET i == CHOOSE a \in 1..Len(text) :
                 text[a] = LB /\ \A b \in 1..(a - 1) : text[b] # LB
        j == CHOOSE a \in 1..Len(text) :
                 text[a] = RB /\ \A b \in (a + 1)..Len(text) : text[b] # RB
    IN  SubSeq(text, i, j)

GenerationFailed(outcome) ==
    \/ outcome.kind = "throw"
    \/ outcome.kind = "notext"
    \/ /\ outcome.kind = "text"
       /\ \/ outcome.text = <<>>
          \/ ~HasBraces(outcome.text)
          \/ ~JSONparse(BraceSpan(outcome.text)).ok

\* C4: when the external call throws, returns no or an empty text, a text
\* without a {...} substring, or one whose {...} substring is not JSON,
\* findMatches returns exactly the score of calculateFallbackScore for the
\* same video and campaign and the fixed reasoning with that score.
C4_FallbackOnFailure ==
    (gResult.called /\ GenerationFailed(gOutcome)) =>
        LET fallbackScore == calculateFallbackScore(gVideo, gCampaign)
        IN  /\ DOMAIN gResult.value = {"score", "reasoning"}
            /\ gResult.value["score"] = fallbackScore
            /\ gResult.value["reasoning"] =
                   Str("Automated match based on genre and category compatibility. Score: "
                           \o NumberToString(fallbackScore) \o "/100")

\* a text with braces that is not JSON gave the fallback score 70 (comedy
\* with entertainment)
C4_Witness ==
    /\ gResult.called
    /\ gOutcome.kind = "text" /\ HasBraces(gOutcome.text)
    /\ ~JSONparse(BraceSpan(gOutcome.text)).ok
    /\ gResult.value["score"] = Num(70)

\* C5 (as claimed): whatever the external call does, findMatches returns an
\* object that has both a score and a reasoning.
C5_AlwaysMatchResult ==
    gResult.called => {"score", "reasoning"} \subseteq DOMAIN gResult.value

\* C6 (as claimed): every score that findMatches returns as a number, and so
\* every persisted matchScore, lies between 0 and 100.
C6_ScoreInRange ==
    /\ \A p \in Slots :
           (req[p].pc = "save" /\ Get(req[p].aiResult, "score").t = "number")
               => Get(req[p].aiResult, "score").n \in 0..100
    /\ \A i \in DOMAIN matchStore : matchStore[i].matchScore \in 0..100

\* C7: a find-matches request naming a video id that does not exist is
\* answered 404, and one by a creator for another creator's video 403; a
\* request for a campaign alone is answered 404 when the id does not exist
\* and 403 when a marketer names another marketer's campaign.
C7_NotFoundAndForbidden ==
    \A p \in Slots :
        Done(p) =>
            LET r == req[p]
            IN  /\ (r.videoId # 0 /\ r.videoId \notin DOMAIN videos) => r.code = 404
                /\ (/\ r.videoId \in DOMAIN videos
                    /\ role(r.actor) = "creator"
                    /\ videos[r.videoId].creatorId # r.actor) => r.code = 403
                /\ (/\ r.videoId = 0 /\ r.campaignId # 0
                    /\ r.campaignId \notin DOMAIN campaigns) => r.code = 404
                /\ (/\ r.videoId = 0 /\ r.campaignId \in DOMAIN campaigns
                    /\ role(r.actor) = "marketer"
                    /\ campaigns[r.campaignId].marketerId # r.actor) => r.code = 403

\* a marketer was refused another marketer's campaign while a video existed
C7_Witness ==
    /\ Done(1) /\ req[1].code = 403
    /\ req[1].videoId = 0 /\ req[1].campaignId \in DOMAIN campaigns
    /\ role(req[1].actor) = "marketer"
    /\ Len(videos) >= 1

\* the actor of r is not the owner of a video or campaign that r names
NotOwner(r) ==
    \/ r.videoId \in DOMAIN videos /\ videos[r.videoId].creatorId # r.actor
    \/ r.campaignId \in DOMAIN campaigns /\ campaigns[r.campaignId].marketerId # r.actor

\* C8 (as claimed): a find-matches request whose actor does not own the
\* video or campaign it names is answered 403 and makes no generation call,
\* whatever the actor's role.
C8_ForbiddenForEveryNonOwner ==
    \A p \in Slots :
        (req[p].pc # "idle" /\ NotOwner(req[p])) =>
            /\ req[p].calls = 0
            /\ Done(p) => req[p].code = 403

\* C8 (amended): a creator naming another creator's video, and a marketer
\* naming (alone) another marketer's campaign, is answered 403 at once: no
\* generation call is made and no record is created.
C8_ForbiddenForOwnRole ==
    \A p \in Slots :
        LET r == req[p]
        IN  (/\ r.pc # "idle"
             /\ \/ /\ r.videoId \in DOMAIN videos
                   /\ role(r.actor) = "creator"
                   /\ videos[r.videoId].creatorId # r.actor
                \/ /\ r.videoId = 0 /\ r.campaignId \in DOMAIN campaigns
                   /\ role(r.actor) = "marketer"
                   /\ campaigns[r.campaignId].marketerId # r.actor)
            => /\ Done(p) /\ r.code = 403
               /\ r.calls = 0 /\ r.created = 0 /\ r.matches = <<>>

\* a creator was refused another creator's video while a campaign without a
\* record for that video existed
C8_Witness ==
    /\ Done(1) /\ req[1].code = 403
    /\ req[1].videoId \in DOMAIN videos
    /\ role(req[1].actor) = "creator"
    /\ \E c \in DOMAIN campaigns : <<req[1].videoId, c>> \notin StoredPairs

\* C9 (as claimed): a find-matches request answered 404 or 403 has inserted
\* no MatchRecord, changed no video status and made no generation call.
C9_NoPartialEffect ==
    \A p \in Slots :
        (Done(p) /\ req[p].code \in {403, 404}) =>
            /\ req[p].created = 0
            /\ req[p].marks = 0
            /\ req[p].calls = 0

\* C10: the list of a successful find-matches response is ordered by
\* matchScore descending, strictly when its scores are all distinct.
C10_SortedDescending ==
    \A p \in Slots :
        (Done(p) /\ req[p].code = 200) =>
            LET m == req[p].matches
                distinct == \A i, j \in 1..Len(m) :
                                m[i].matchScore = m[j].matchScore => i = j
            IN  \A i \in 1..(Len(m) - 1) :
                    /\ m[i].matchScore >= m[i + 1].matchScore
                    /\ distinct => m[i].matchScore > m[i + 1].matchScore

\* a response for a video in which the later campaign's match comes first
C10_Witness ==
    /\ Done(1) /\ req[1].code = 200
    /\ req[1].videoId # 0 /\ req[1].campaignId = 0
    /\ Len(req[1].matches) = 2
    /\ req[1].matches[1].campaignId > req[1].matches[2].campaignId
    /\ req[1].matches[1].matchScore > req[1].matches[2].matchScore

\* the pair (v, c) has a MatchRecord in the store
HasRecord(v, c) == <<v, c>> \in StoredPairs

\* C11: the external generation service is invoked only from the await that
\* follows an existence check which found no MatchRecord of the pair; when the
\* check finds a record, that step makes no generation call, writes nothing
\* to the store and adds the stored record to the result with its score,
\* reasoning and status as they are stored.
C11_GenerateOnlyForMissingPairs ==
    [][\A p \in Slots :
          LET r == req[p]
              r2 == req'[p]
              v == PairVideo(r)
              c == PairCampaign(r)
          IN  /\ (r2.calls > r.calls) => r.pc = "gen"
              /\ (r2.pc = "gen" /\ r.pc # "gen") =>
                     (r.pc = "check" /\ ~HasRecord(v, c))
              /\ (r.pc = "check" /\ HasRecord(v, c)) =>
                     /\ r2.calls = r.calls /\ r2.pc # "gen"
                     /\ matchStore' = matchStore
                     /\ Len(r2.matches) = Len(r.matches) + 1
                     /\ \E i \in DOMAIN matchStore, k \in DOMAIN r2.matches :
                            /\ matchStore[i].videoId = v
                            /\ matchStore[i].campaignId = c
                            /\ r2.matches[k].id = i
                            /\ r2.matches[k].videoId = v
                            /\ r2.matches[k].campaignId = c
                            /\ r2.matches[k].matchScore = matchStore[i].matchScore
                            /\ r2.matches[k].reasoning = matchStore[i].reasoning
                            /\ r2.matches[k].status = matchStore[i].status
    ]_vars

\* a campaign request met one pair with a record, rejected since a video
\* request had created it, and one pair without: one generation call
C11_Witness ==
    /\ Done(1) /\ req[1].code = 200
    /\ req[1].videoId = 0 /\ req[1].campaignId # 0
    /\ Len(req[1].matches) = 2
    /\ req[1].calls = 1 /\ req[1].created = 1
    /\ \E k \in 1..2 : req[1].matches[k].status = "rejected"

\* the entries of the list m for the pair (v, c)
EntriesOf(m, v, c) == {k \in DOMAIN m : m[k].videoId = v /\ m[k].campaignId = c}

\* C12: a successful find-matches request that names a video alone returns
\* exactly one match for every campaign in the system, whoever owns it, and
\* nothing else, and every such (video, campaign) pair then has a persisted
\* MatchRecord; a request that names a campaign alone does the same for
\* every video.
C12_OneMatchPerCandidate ==
    \A p \in Slots :
        (Done(p) /\ req[p].code = 200) =>
            LET r == req[p]
                m == r.matches
            IN  /\ (r.videoId # 0 /\ r.campaignId = 0) =>
                       /\ Len(m) = Len(campaigns)
                       /\ \A c \in DOMAIN campaigns :
                              /\ Cardinality(EntriesOf(m, r.videoId, c)) = 1
                              /\ HasRecord(r.videoId, c)
                /\ (r.videoId = 0 /\ r.campaignId # 0) =>
                       /\ Len(m) = Len(videos)
                       /\ \A v \in DOMAIN videos :
                              /\ Cardinality(EntriesOf(m, v, r.campaignId)) = 1
                              /\ HasRecord(v, r.campaignId)

\* a video request created the records of two campaigns of two marketers
C12_Witness ==
    /\ Done(1) /\ req[1].code = 200
    /\ req[1].videoId # 0 /\ req[1].campaignId = 0
    /\ Len(campaigns) = 2
    /\ campaigns[1].marketerId # campaigns[2].marketerId
    /\ req[1].created = 2

\* the bonus of the table for the lower-cased genre and category, 0 when
\* either is not a key of the table
TableBonus(genre, category) ==
    LET g == toLowerCase(genre)
        c == toLowerCase(category)
    IN  IF g \in DOMAIN genreBonus /\ c \in DOMAIN genreBonus[g]
        THEN genreBonus[g][c]
        ELSE 0

\* 10 when the lower-cased tone contains "professional" and the lower-cased
\* category contains "business", else 0
ToneBonus(tone, category) ==
    IF /\ includes(toLowerCase(tone), s_professional)
       /\ includes(toLowerCase(category), s_business)
    THEN 10
    ELSE 0

\* findMatches took the fallback path, so its score is the value of
\* calculateFallbackScore(gVideo, gCampaign)
FallbackTaken == gResult.called /\ GenFails(gOutcome)

\* C13 (as claimed): calculateFallbackScore(video, campaign) is the clamp to
\* [0, 100] of 50 + G + T, with G the table's bonus for the lower-cased genre
\* and category or 0 when either is not in the table, and T the
\* tone-business bonus.
C13_FallbackScoreFormula ==
    FallbackTaken =>
        gResult.value["score"] =
            Num(Min2(Max2(50 + TableBonus(gVideo.genre, gCampaign.category)
                             + ToneBonus(gVideo.tone, gCampaign.category), 0), 100))

\* C14 (as claimed): calculateFallbackScore returns an integer between 0 and
\* 100 for every video and campaign.
C14_FallbackScoreInRange ==
    FallbackTaken =>
        /\ gResult.value["score"].t = "number"
        /\ gResult.value["score"].n \in 0..100

\* C15: no step removes a MatchRecord or changes the videoId, campaignId,
\* matchScore or reasoning of a stored one; accept, reject and later
\* find-matches requests change at most its status.
C15_RecordFieldsNeverChange ==
    [][/\ Len(matchStore') >= Len(matchStore)
       /\ \A i \in DOMAIN matchStore :
              /\ matchStore'[i].videoId = matchStore[i].videoId
              /\ matchStore'[i].campaignId = matchStore[i].campaignId
              /\ matchStore'[i].matchScore = matchStore[i].matchScore
              /\ matchStore'[i].reasoning = matchStore[i].reasoning
    ]_vars

\* a record was rejected, then accepted, and a later find-matches request
\* has returned it
C15_Witness ==
    /\ Done(1) /\ req[1].code = 200 /\ req[1].route = "find-matches"
    /\ req[1].created = 0
    /\ \E k \in DOMAIN req[1].matches : req[1].matches[k].status = "accepted"
    /\ \E i \in DOMAIN matchStore : matchStore[i].status = "rejected"

\* C18: an accept or reject request is answered 200 exactly when its actor is
\* the creator who owns the video of the match; a creator who does not own it
\* is answered 403 and an unknown match id 404, and a request not answered 200
\* leaves every match and every video as it was; a successful accept sets the
\* match to "accepted" and its video to "approved", a successful reject sets
\* the match to "rejected" and leaves the videos as they were.
C18_AcceptRejectOutcome ==
    [][\A p \in Slots :
          LET r == req'[p]
              id == r.matchId
              known == id \in DOMAIN matchStore
              owns == known /\ videos[matchStore[id].videoId].creatorId = r.actor
          IN  (req[p].pc = "idle" /\ r.route \in {"accept", "reject"}) =>
                  /\ r.pc = "done"
                  /\ (r.code = 200) <=> (role(r.actor) = "creator" /\ owns)
                  /\ (role(r.actor) = "creator" /\ known /\ ~owns) => r.code = 403
                  /\ (role(r.actor) = "creator" /\ ~known) => r.code = 404
                  /\ (r.code # 200) => (matchStore' = matchStore /\ videos' = videos)
                  /\ (r.code = 200 /\ r.route = "accept") =>
                         /\ matchStore' = [matchStore EXCEPT ![id].status = "accepted"]
                         /\ videos' = [videos EXCEPT
                                ![matchStore[id].videoId].status = "approved"]
                  /\ (r.code = 200 /\ r.route = "reject") =>
                         /\ matchStore' = [matchStore EXCEPT ![id].status = "rejected"]
                         /\ videos' = videos
    ]_vars

\* an accept was refused to a creator who does not own the video of a match
\* that the owner had accepted before
C18_Witness ==
    /\ Done(1) /\ req[1].route = "accept" /\ req[1].code = 403
    /\ role(req[1].actor) = "creator"
    /\ req[1].matchId \in DOMAIN matchStore
    /\ matchStore[req[1].matchId].status = "accepted"
    /\ videos[matchStore[req[1].matchId].videoId].status = "approved"

\* the ids of the records that the request r, served alone, has created
CreatedBy(r) == (Len(matchStore) - r.created + 1)..Len(matchStore)

\* C16: every MatchRecord that a find-matches request inserts is stored with
\* status "pending"; when the request has completed, the video of each record
\* it created has been set to "matched", one status write per record created;
\* the step that finds the record of a pair writes to no video.
C16_PendingThenMatched ==
    /\ [](\A p \in Slots :
              (Done(p) /\ req[p].route = "find-matches") =>
                  /\ req[p].marks = req[p].created
                  /\ \A i \in CreatedBy(req[p]) :
                         videos[matchStore[i].videoId].status = "matched")
    /\ [][/\ \A i \in (DOMAIN matchStore') \ (DOMAIN matchStore) :
                 matchStore'[i].status = "pending"
          /\ \A p \in Slots :
                 (req[p].pc \notin {"idle", "mark"}) => videos' = videos
      ]_vars

\* a campaign request created the records of two videos and marked both
C16_Witness ==
    /\ Done(1) /\ req[1].code = 200
    /\ req[1].videoId = 0 /\ req[1].campaignId # 0
    /\ req[1].created = 2 /\ req[1].marks = 2
    /\ \A v \in DOMAIN videos : videos[v].status = "matched"
    /\ \A i \in DOMAIN matchStore : matchStore[i].status = "pending"

\* the upload limits of the README: videos 50MB, assets 5MB
VideoMaxBytes == 50 * MB
AssetMaxBytes == 5 * MB

\* C17 (as claimed): an asset upload whose file is larger than 5MB and a
\* video upload whose file is larger than 50MB are rejected, and no Campaign
\* or Video record is created.
C17_UploadLimits ==
    [][\A p \in Slots :
          LET r == req'[p]
          IN  (/\ req[p].pc = "idle"
               /\ \/ r.route = "create-campaign" /\ r.file.size > AssetMaxBytes
                  \/ r.route = "upload-video" /\ r.file.size > VideoMaxBytes)
              => /\ r.code # 201
                 /\ campaigns' = campaigns
                 /\ videos' = videos
    ]_vars

\* C19 (as claimed): when a find-matches request has been answered, the
\* number of calls it made to the external generation service equals the
\* number of MatchRecords it created.
C19_CallsEqualCreated ==
    \A p \in Slots :
        (Done(p) /\ req[p].route = "find-matches") =>
            req[p].calls = req[p].created

\* C20: when the external call returns a text, the candidate is the text from
\* its first { to its last }: a text made of prose without braces, one valid
\* JSON object and prose without braces makes findMatches return exactly the
\* parsed object; a text whose first-to-last-brace part is not valid JSON, as
\* with two objects or with a } in the trailing prose, makes it return the
\* fallback result.
C20_FirstToLastBrace ==
    (gResult.called /\ gOutcome.kind = "text") =>
        LET text == gOutcome.text
            fallback == FallbackResult(gVideo, gCampaign)
        IN  /\ \A a, b \in 0..MaxProse, obj \in ValidObjects :
                   (text = Prose(a) \o obj \o Prose(b)) =>
                       gResult.value = JSONparse(obj).v.o
            /\ \A a, b \in 0..MaxProse :
                   (text = Prose(a) \o objGood \o Prose(b)) =>
                       gResult.value =
                           ("score" :> Num(85)) @@
                           ("reasoning" :> Str("Strong genre and category fit"))
            /\ (HasBraces(text) /\ ~JSONparse(BraceSpan(text)).ok) =>
                   gResult.value = fallback
            /\ \A a, b \in 0..MaxProse :
                   (\/ text = Prose(a) \o objGood \o objLow \o Prose(b)
                    \/ b >= 1 /\ text = Prose(a) \o objGood \o Prose(b) \o <<RB>>) =>
                       gResult.value = fallback

\* prose, the object with score 85, prose: the object came back
C20_Witness ==
    /\ gResult.called
    /\ gOutcome = OutText(Prose(1) \o objGood \o Prose(1))
    /\ gResult.value["score"] = Num(85)

\* the place of a status on the path uploaded -> matched -> approved
StatusRank(status) ==
    IF status = "uploaded" THEN 1 ELSE IF status = "matched" THEN 2 ELSE 3

\* C21 (as claimed): no step of find-matches, accept, reject or campaign
\* creation moves the status of a video backwards on the path
\* uploaded -> matched -> approved.
C21_StatusOnlyForward ==
    [][\A v \in DOMAIN videos :
          StatusRank(videos'[v].status) >= StatusRank(videos[v].status)
    ]_vars

\* C22 (as claimed): the list of a successful find-matches request has no two
\* entries with the same (videoId, campaignId) pair, whatever the body, one
\* with both a videoId and a campaignId included.
C22_NoPairTwiceInList ==
    \A p \in Slots :
        (Done(p) /\ req[p].route = "find-matches" /\ req[p].code = 200) =>
            \A i, j \in DOMAIN req[p].matches :
                (/\ req[p].matches[i].videoId = req[p].matches[j].videoId
                 /\ req[p].matches[i].campaignId = req[p].matches[j].campaignId)
                => i = j

\* the statuses of the MatchRecords of video v
StatusesOf(v) ==
    {matchStore[i].status : i \in {k \in DOMAIN matchStore : matchStore[k].videoId = v}}

\* C23 (as claimed): when no request is in flight, a video that is "approved"
\* has a MatchRecord that is "accepted", and a video that is "matched" or
\* "approved" has a MatchRecord.
C23_StatusBackedByRecords ==
    AllIdle =>
        \A v \in DOMAIN videos :
            /\ (videos[v].status = "approved") => "accepted" \in StatusesOf(v)
            /\ (videos[v].status \in {"matched", "approved"}) => StatusesOf(v) # {}

\* C24 (as claimed): the genre bonus and the tone-business bonus never apply
\* together, and the fallback score is one of 50, 60, 65 and 70 for every
\* input.
C24_FallbackScoreValues ==
    FallbackTaken =>
        /\ ~(/\ TableBonus(gVideo.genre, gCampaign.category) > 0
             /\ ToneBonus(gVideo.tone, gCampaign.category) > 0)
        /\ gResult.value["score"] \in {Num(50), Num(60), Num(65), Num(70)}

\* the chat with this id is stored
ChatExists(chatId) == chatId \in DOMAIN chats /\ ~chats[chatId].deleted

\* C25 (as claimed): every stored Message has the chatId of a Chat that
\* exists, in every state, also when a send-message request and a delete
\* request for the same chat run concurrently.
C25_NoMessageWithoutChat ==
    \A i \in DOMAIN messages : ChatExists(messages[i].chatId)

====
